---- MODULE Spec2Model ----
(***************************************************************************)
(* Model of the tabular Q-learning agent of cartpole-ai:                   *)
(*   cartpole.py : find_nearest, discretize_observation_space,             *)
(*                 discretize_state and the module-level training script   *)
(*   qtable.py   : class QTable                                            *)
(* Real numbers are modelled exactly: domain values, observations and      *)
(* rewards as integers, Q-values and rates as normalised fractions         *)
(* <<numerator, denominator>>.                                             *)
(***************************************************************************)
EXTENDS Integers, Sequences, FiniteSets, TLC

VARIABLES
    pc,                 \* position of the running code
    ls, target,         \* find_nearest: its two parameters
    start, end,         \* find_nearest: the search interval [start, end)
    ret,                \* find_nearest: what the call returned
    observation_space,  \* the discretized observation space: one domain per factor
    _table,             \* QTable._table: index tuple -> Q-value of each action
    _states_idxs,       \* QTable._states_idxs: per factor, value -> index
    _actions_idxs,      \* QTable._actions_idxs: action -> index
    learning_rate, discount_rate, exploration_decay,    \* QTable's configuration
    exploration_rate,   \* QTable.exploration_rate
    call,               \* the last call made on the QTable, with its outcome
    before,             \* _table and exploration_rate as that call found them
    ncalls,             \* number of calls made so far
    bounds, steps,      \* the script: (min, max) and step of each factor
    observation,        \* the script: the environment's last observation
    state_action_pairs, \* the script: the (state, action) pairs of the episode
    episode,            \* the script: number of the running episode
    env_steps,          \* the script: calls of env.step made so far
    error               \* the exception that ended the script, or "None"

findVars == <<ls, target, start, end, ret>>
tableVars == <<_table, exploration_rate>>
configVars == <<observation_space, _states_idxs, _actions_idxs, learning_rate, discount_rate, exploration_decay>>
callVars == <<call, before, ncalls>>
scriptVars == <<bounds, steps, env_steps>>
loopVars == <<observation, state_action_pairs, episode, error>>
vars == <<pc, findVars, tableVars, configVars, callVars, scriptVars, loopVars>>

----------------------------------------------------------------------------
(* Bounds of the model *)

MaxLen == 6             \* longest domain handed to find_nearest
MaxVal == 6             \* domain values are drawn from 0..MaxVal
MaxCalls == 2           \* calls made on one QTable
NumActions == 2         \* size of the action set
MaxBound == 4           \* largest max of a factor's range
MaxEnvSteps == 2        \* calls of env.step in one run of the script

----------------------------------------------------------------------------
(* Python values *)

Abs(x) == IF x < 0 THEN -x ELSE x

\* ls[i] with Python's 0-based index
At(l, i) == l[i + 1]

\* ls[-1]
Last(l) == l[Len(l)]

\* the values a list holds
Elements(l) == { l[i] : i \in 1..Len(l) }

Value(v)   == [tag |-> "value", v |-> v]
None       == [tag |-> "None", v |-> 0]
IndexError == [tag |-> "IndexError", v |-> 0]

----------------------------------------------------------------------------
(* cartpole.py: find_nearest *)

\* as get_closer, but with the comparison turned round
get_closer_farther(t, a, b) ==
    LET diff_a == Abs(t - a)
        diff_b == Abs(t - b)
    IN  IF diff_a >= diff_b THEN a ELSE b

\* the nested function get_closer; t is the enclosing call's target
get_closer(t, a, b) ==
    LET diff_a == Abs(t - a)
        diff_b == Abs(t - b)
    IN  IF diff_a <= diff_b THEN a ELSE b

\* the statements before the loop: the two edge cases, then start and end.
\* ls[-1] of an empty list raises IndexError.
find_entry(l, t) ==
    IF Len(l) = 0 THEN [returned |-> TRUE, ret |-> IndexError, start |-> 0, end |-> 0]
    ELSE IF t >= Last(l) THEN [returned |-> TRUE, ret |-> Value(Last(l)), start |-> 0, end |-> 0]
    ELSE IF t <= At(l, 0) THEN [returned |-> TRUE, ret |-> Value(At(l, 0)), start |-> 0, end |-> 0]
    ELSE [returned |-> FALSE, ret |-> None, start |-> 0, end |-> Len(l)]

\* as loop_body, but with `start = mid` and `end = mid` exchanged
loop_body_wrong_side(l, t, s, e) ==
    IF ~(s < e) THEN [returned |-> TRUE, ret |-> None, start |-> s, end |-> e]
    ELSE
    LET mid == (s + e) \div 2
    IN  IF At(l, mid) = t
        THEN [returned |-> TRUE, ret |-> Value(At(l, mid)), start |-> s, end |-> e]
        ELSE IF At(l, mid) < t
        THEN IF mid < Len(l) - 1 /\ t < At(l, mid + 1)
             THEN [returned |-> TRUE, ret |-> Value(get_closer(t, At(l, mid), At(l, mid + 1))),
                   start |-> s, end |-> e]
             ELSE [returned |-> FALSE, ret |-> None, start |-> s, end |-> mid]
        ELSE IF mid > 0 /\ t > At(l, mid - 1)
             THEN [returned |-> TRUE, ret |-> Value(get_closer(t, At(l, mid), At(l, mid - 1))),
                   start |-> s, end |-> e]
             ELSE [returned |-> FALSE, ret |-> None, start |-> mid, end |-> e]

\* one test of `while start < end` followed, when it passes, by one run of the
\* loop's body; falling out of the loop returns None
loop_body(l, t, s, e) ==
    IF ~(s < e) THEN [returned |-> TRUE, ret |-> None, start |-> s, end |-> e]
    ELSE
    LET mid == (s + e) \div 2
    IN  IF At(l, mid) = t
        THEN [returned |-> TRUE, ret |-> Value(At(l, mid)), start |-> s, end |-> e]
        ELSE IF At(l, mid) < t
        THEN IF mid < Len(l) - 1 /\ t < At(l, mid + 1)
             THEN [returned |-> TRUE, ret |-> Value(get_closer(t, At(l, mid), At(l, mid + 1))),
                   start |-> s, end |-> e]
             ELSE [returned |-> FALSE, ret |-> None, start |-> mid, end |-> e]
        ELSE IF mid > 0 /\ t > At(l, mid - 1)
             THEN [returned |-> TRUE, ret |-> Value(get_closer(t, At(l, mid), At(l, mid - 1))),
                   start |-> s, end |-> e]
             ELSE [returned |-> FALSE, ret |-> None, start |-> s, end |-> mid]

RECURSIVE find_loop(_, _, _, _)
find_loop(l, t, s, e) ==
    LET r == loop_body(l, t, s, e)
    IN  IF r.returned THEN r.ret ELSE find_loop(l, t, r.start, r.end)

\* the whole call, as the value it returns
find_nearest(l, t) ==
    LET r == find_entry(l, t)
    IN  IF r.returned THEN r.ret ELSE find_loop(l, t, r.start, r.end)

----------------------------------------------------------------------------
(* Exact fractions <<n, d>> with d > 0, kept in lowest terms *)

RECURSIVE Gcd(_, _)
Gcd(a, b) == IF b = 0 THEN a ELSE Gcd(b, a % b)

Norm(n, d) == LET g == Gcd(Abs(n), d) IN <<n \div g, d \div g>>

Frac(n)    == <<n, 1>>
RAdd(a, b) == Norm(a[1] * b[2] + b[1] * a[2], a[2] * b[2])
RSub(a, b) == Norm(a[1] * b[2] - b[1] * a[2], a[2] * b[2])
RMul(a, b) == Norm(a[1] * b[1], a[2] * b[2])
RLe(a, b)  == a[1] * b[2] <= b[1] * a[2]
RLt(a, b)  == a[1] * b[2] < b[1] * a[2]

----------------------------------------------------------------------------
(* qtable.py: class QTable *)

KeyError == [tag |-> "KeyError", v |-> 0]

\* the action set of the script: [i for i in range(env.action_space.n)]
actions == [i \in 1..NumActions |-> i - 1]

\* {x : idx for idx, x in enumerate(xs)}: a later duplicate overwrites
Enumerate(xs) ==
    [x \in Elements(xs) |->
        CHOOSE idx \in 0..Len(xs) - 1 :
            /\ At(xs, idx) = x
            /\ \A j \in 0..Len(xs) - 1 : At(xs, j) = x => j <= idx]

\* [{state : idx for idx, state in enumerate(discrete_states)} for ...]
StatesIdxs(space) == [i \in 1..Len(space) |-> Enumerate(space[i])]

\* the index tuples of the state axes of _table
Shape(space) ==
    LET longest == CHOOSE n \in { Len(space[i]) : i \in 1..Len(space) } :
                       \A i \in 1..Len(space) : Len(space[i]) <= n
    IN  { ix \in [1..Len(space) -> 0..longest - 1] :
            \A i \in 1..Len(space) : ix[i] < Len(space[i]) }

\* numpy.zeros(shape of the state axes + (len(actions),))
Zeros(space) == [ix \in Shape(space) |-> [a \in 0..Len(actions) - 1 |-> Frac(0)]]

\* the part of _get_state_values that walks the key: the position in _table
\* of the state's row of action values, or the KeyError of the first value
\* that its factor's dictionary does not hold
_get_state_index(state) ==
    IF \E i \in 1..Len(state) : state[i] \notin DOMAIN _states_idxs[i]
    THEN KeyError
    ELSE Value([i \in 1..Len(state) |-> _states_idxs[i][state[i]]])

\* _get_state_values returns a view: the row itself, not a copy
_get_state_values(tbl, state) ==
    LET ix == _get_state_index(state)
    IN  IF ix.tag = "KeyError" THEN KeyError ELSE Value(tbl[ix.v])

_get_qvalue(tbl, state, action) ==
    LET action_qvalues == _get_state_values(tbl, state)
    IN  IF action_qvalues.tag = "KeyError" THEN KeyError
        ELSE IF action \notin DOMAIN _actions_idxs THEN KeyError
        ELSE Value(action_qvalues.v[_actions_idxs[action]])

\* as _update_qvalue, but assigning to the whole row
_update_qvalue_row(tbl, state, action, new_value) ==
    LET ix == _get_state_index(state)
    IN  IF ix.tag = "KeyError" THEN [raised |-> TRUE, table |-> tbl]
        ELSE IF action \notin DOMAIN _actions_idxs THEN [raised |-> TRUE, table |-> tbl]
        ELSE [raised |-> FALSE,
              table  |-> [tbl EXCEPT ![ix.v] = [a \in DOMAIN tbl[ix.v] |-> new_value]]]

\* writes one element through the view
_update_qvalue(tbl, state, action, new_value) ==
    LET ix == _get_state_index(state)
    IN  IF ix.tag = "KeyError" THEN [raised |-> TRUE, table |-> tbl]
        ELSE IF action \notin DOMAIN _actions_idxs THEN [raised |-> TRUE, table |-> tbl]
        ELSE [raised |-> FALSE,
              table  |-> [tbl EXCEPT ![ix.v][_actions_idxs[action]] = new_value]]

\* ndarray.argmax: the first index holding the maximum
RECURSIVE argmax_scan(_, _, _)
argmax_scan(values, i, best) ==
    IF i > Len(actions) - 1 THEN best
    ELSE argmax_scan(values, i + 1, IF RLt(values[best], values[i]) THEN i ELSE best)

\* as argmax, but the last index holding the maximum
argmax_last(values) ==
    CHOOSE i \in 0..Len(actions) - 1 :
        /\ \A j \in 0..Len(actions) - 1 : RLe(values[j], values[i])
        /\ \A j \in 0..Len(actions) - 1 : values[j] = values[i] => j <= i

argmax(values) == argmax_scan(values, 1, 0)

_get_max_action(tbl, state) ==
    LET action_qvalues == _get_state_values(tbl, state)
    IN  IF action_qvalues.tag = "KeyError" THEN KeyError
        ELSE LET max_idx == argmax(action_qvalues.v)
             IN  Value(<<At(actions, max_idx), action_qvalues.v[max_idx]>>)

\* as process_step, but taking the maximum at state instead of new_state
process_step_max_of_state(tbl, state, action, new_state, reward) ==
    LET old_qvalue == _get_qvalue(tbl, state, action)
        max_action == _get_max_action(tbl, state)
    IN  IF old_qvalue.tag = "KeyError" THEN [raised |-> TRUE, table |-> tbl]
        ELSE IF _get_max_action(tbl, new_state).tag = "KeyError"
        THEN [raised |-> TRUE, table |-> tbl]
        ELSE LET new_qvalue == RAdd(Frac(reward), RMul(discount_rate, max_action.v[2]))
             IN  _update_qvalue(tbl, state, action,
                     RAdd(RMul(RSub(Frac(1), learning_rate), old_qvalue.v),
                          RMul(learning_rate, new_qvalue)))

\* as process_step, but storing the decayed old value before new_state is
\* looked up
process_step_write_first(tbl, state, action, new_state, reward) ==
    LET old_qvalue == _get_qvalue(tbl, state, action)
        max_action == _get_max_action(tbl, new_state)
    IN  IF old_qvalue.tag = "KeyError" THEN [raised |-> TRUE, table |-> tbl]
        ELSE LET first == _update_qvalue(tbl, state, action,
                              RMul(RSub(Frac(1), learning_rate), old_qvalue.v)).table
             IN  IF max_action.tag = "KeyError" THEN [raised |-> TRUE, table |-> first]
                 ELSE LET new_qvalue ==
                              RAdd(Frac(reward), RMul(discount_rate, max_action.v[2]))
                      IN  _update_qvalue(first, state, action,
                              RAdd(RMul(RSub(Frac(1), learning_rate), old_qvalue.v),
                                   RMul(learning_rate, new_qvalue)))

process_step(tbl, state, action, new_state, reward) ==
    LET old_qvalue == _get_qvalue(tbl, state, action)
        max_action == _get_max_action(tbl, new_state)
    IN  IF old_qvalue.tag = "KeyError" THEN [raised |-> TRUE, table |-> tbl]
        ELSE IF max_action.tag = "KeyError" THEN [raised |-> TRUE, table |-> tbl]
        ELSE LET new_qvalue == RAdd(Frac(reward), RMul(discount_rate, max_action.v[2]))
             IN  _update_qvalue(tbl, state, action,
                     RAdd(RMul(RSub(Frac(1), learning_rate), old_qvalue.v),
                          RMul(learning_rate, new_qvalue)))

\* r is the value of random.random(), choice that of random.choice(actions)
decide_action(tbl, state, r, choice) ==
    IF RLe(r, exploration_rate) THEN Value(choice)
    ELSE LET max_action == _get_max_action(tbl, state)
         IN  IF max_action.tag = "KeyError" THEN KeyError ELSE Value(max_action.v[1])

\* as update_exploration_rate, but with 1 + exploration_decay
update_exploration_rate_grow(rate) == RMul(rate, RAdd(Frac(1), exploration_decay))

update_exploration_rate(rate) == RMul(rate, RSub(Frac(1), exploration_decay))

----------------------------------------------------------------------------
(* cartpole.py: discretize_observation_space, discretize_state *)

\* list(numpy.arange(lo, hi, step)) for a positive step: lo, lo + step, ...
\* below hi; empty when hi <= lo
arange(lo, hi, step) ==
    LET n == IF hi > lo THEN (hi - lo + step - 1) \div step ELSE 0
    IN  [i \in 1..n |-> lo + (i - 1) * step]

\* bnds[idx] is the pair (bounds[0], bounds[1]) of factor idx
discretize_observation_space(bnds, stps) ==
    [idx \in 1..Len(bnds) |-> arange(bnds[idx][1], bnds[idx][2], stps[idx])]

\* as discretize_state, but searching the first factor's domain for every factor
discretize_state_first_domain(state, space) ==
    LET nearest == [idx \in 1..Len(state) |-> find_nearest(space[1], state[idx])]
    IN  IF \E idx \in 1..Len(state) : nearest[idx].tag # "value"
        THEN IndexError
        ELSE Value([idx \in 1..Len(state) |-> nearest[idx].v])

\* the tuple of the nearest value of each factor; find_nearest raises
\* IndexError on an empty domain
discretize_state(state, space) ==
    LET nearest == [idx \in 1..Len(state) |-> find_nearest(space[idx], state[idx])]
    IN  IF \E idx \in 1..Len(state) : nearest[idx].tag # "value"
        THEN IndexError
        ELSE Value([idx \in 1..Len(state) |-> nearest[idx].v])

----------------------------------------------------------------------------
(* find_nearest run statement by statement on every domain and target *)

StrictlyIncreasing(l) == \A i \in 1..Len(l) - 1 : l[i] < l[i + 1]

Domains ==
    UNION { { l \in [1..n -> 0..MaxVal] : StrictlyIncreasing(l) } : n \in 1..MaxLen }

Targets == -1..MaxVal + 1

InitFind ==
    /\ pc = "entry"
    /\ ls \in Domains
    /\ target \in Targets
    /\ start = 0
    /\ end = 0
    /\ ret = None
    /\ observation_space = <<>>
    /\ _table = <<>>
    /\ _states_idxs = <<>>
    /\ _actions_idxs = <<>>
    /\ learning_rate = <<0, 1>>
    /\ discount_rate = <<0, 1>>
    /\ exploration_decay = <<0, 1>>
    /\ exploration_rate = <<0, 1>>
    /\ call = <<>>
    /\ before = <<>>
    /\ ncalls = 0
    /\ bounds = <<>> /\ steps = <<>> /\ env_steps = 0 /\ observation = <<>>
    /\ state_action_pairs = <<>> /\ episode = 0 /\ error = "None"

FindEntry ==
    /\ pc = "entry"
    /\ LET r == find_entry(ls, target)
       IN  /\ pc' = IF r.returned THEN "done" ELSE "loop"
           /\ ret' = r.ret
           /\ start' = r.start
           /\ end' = r.end
    /\ UNCHANGED <<ls, target, tableVars, configVars, callVars, scriptVars, loopVars>>

FindLoop ==
    /\ pc = "loop"
    /\ LET r == loop_body(ls, target, start, end)
       IN  /\ pc' = IF r.returned THEN "done" ELSE "loop"
           /\ ret' = r.ret
           /\ start' = r.start
           /\ end' = r.end
    /\ UNCHANGED <<ls, target, tableVars, configVars, callVars, scriptVars, loopVars>>

NextFind == FindEntry \/ FindLoop

SpecFind == InitFind /\ [][NextFind]_vars

----------------------------------------------------------------------------
(* One QTable and the calls a caller can make on it, valid or not *)

\* the QTable is built over two factors
TableSpace == <<<<0, 2>>, <<5>>>>

NumFactors == Len(TableSpace)

\* state keys handed to the calls, one value per factor: the two keys of the
\* table, one with a value absent from the first domain, one with a value
\* absent from the second
Keys == { <<0, 5>>, <<2, 5>>, <<1, 5>>, <<2, 6>> }

ValidKeys == { k \in Keys : \A i \in 1..Len(TableSpace) : k[i] \in Elements(TableSpace[i]) }

\* actions handed to the calls: Len(actions) is not an action
ActionInputs == 0..Len(actions)

Rewards == {1, 2}

\* (learning_rate, discount_rate, exploration_decay) given to the constructor;
\* exploration_decay lies in (0, 1]
Configs == { <<<<1, 2>>, <<1, 1>>, <<1, 2>>>>, <<<<1, 4>>, <<1, 2>>, <<1, 1>>>> }

\* values of random.random(), in [0, 1)
Randoms == { <<0, 1>>, <<1, 2>>, <<3, 4>> }

NoCall == [op |-> "none", state |-> <<>>, action |-> 0, new_state |-> <<>>,
           reward |-> 0, raised |-> FALSE, result |-> None]

\* QTable(observation_space, actions, learning_rate, discount_rate, exploration_decay)
InitTable ==
    /\ pc = "table"
    /\ observation_space = TableSpace
    /\ _table = Zeros(TableSpace)
    /\ _states_idxs = StatesIdxs(TableSpace)
    /\ _actions_idxs = Enumerate(actions)
    /\ \E c \in Configs :
        learning_rate = c[1] /\ discount_rate = c[2] /\ exploration_decay = c[3]
    /\ exploration_rate = Frac(1)
    /\ call = NoCall
    /\ before = [table |-> _table, exploration_rate |-> exploration_rate]
    /\ ncalls = 0
    /\ ls = <<>> /\ target = 0 /\ start = 0 /\ end = 0 /\ ret = None
    /\ bounds = <<>> /\ steps = <<>> /\ env_steps = 0 /\ observation = <<>>
    /\ state_action_pairs = <<>> /\ episode = 0 /\ error = "None"

Called ==
    /\ ncalls < MaxCalls
    /\ ncalls' = ncalls + 1
    /\ before' = [table |-> _table, exploration_rate |-> exploration_rate]
    /\ UNCHANGED <<pc, findVars, configVars, scriptVars, loopVars>>

ProcessStep ==
    \E state \in Keys, action \in ActionInputs, new_state \in Keys, reward \in Rewards :
        LET r == process_step(_table, state, action, new_state, reward)
        IN  /\ Called
            /\ _table' = r.table
            /\ call' = [NoCall EXCEPT !.op = "process_step", !.state = state,
                            !.action = action, !.new_state = new_state,
                            !.reward = reward, !.raised = r.raised]
            /\ UNCHANGED exploration_rate

DecideAction ==
    \E state \in Keys, r \in Randoms, choice \in Elements(actions) :
        LET a == decide_action(_table, state, r, choice)
        IN  /\ Called
            /\ call' = [NoCall EXCEPT !.op = "decide_action", !.state = state,
                            !.raised = (a.tag = "KeyError"), !.result = a]
            /\ UNCHANGED tableVars

GetMaxAction ==
    \E state \in Keys :
        LET m == _get_max_action(_table, state)
        IN  /\ Called
            /\ call' = [NoCall EXCEPT !.op = "_get_max_action", !.state = state,
                            !.raised = (m.tag = "KeyError"), !.result = m]
            /\ UNCHANGED tableVars

UpdateExplorationRate ==
    /\ Called
    /\ exploration_rate' = update_exploration_rate(exploration_rate)
    /\ call' = [NoCall EXCEPT !.op = "update_exploration_rate"]
    /\ UNCHANGED _table

NextTable == ProcessStep \/ DecideAction \/ GetMaxAction \/ UpdateExplorationRate

SpecTable == InitTable /\ [][NextTable]_vars

----------------------------------------------------------------------------
(* The script of cartpole.py: build the domains, construct the QTable, then  *)
(* run episodes. The environment is any sequence of observations and `done` *)
(* flags; a run is followed for MaxEnvSteps calls of env.step.               *)

\* (min, max, step) of one factor
FactorInputs == { <<0, 1, 1>>, <<0, MaxBound, 2>>, <<1, 1, 1>> }

\* what env.reset() and env.step() return: per factor a value below every
\* domain, one between two values of a domain (or above it), or one above
\* every domain
Observations == { <<-1, 1>>, <<1, MaxBound + 1>>, <<MaxBound + 1, -1>> }

\* the arguments of the constructor
TrainConfig == <<<<1, 2>>, <<1, 1>>, <<1, 2>>>>

InitTrain ==
    /\ pc = "start"
    /\ \E f \in [1..NumFactors -> FactorInputs] :
        /\ bounds = [i \in 1..NumFactors |-> <<f[i][1], f[i][2]>>]
        /\ steps = [i \in 1..NumFactors |-> f[i][3]]
    /\ observation_space = <<>>
    /\ _table = <<>>
    /\ _states_idxs = <<>>
    /\ _actions_idxs = <<>>
    /\ learning_rate = TrainConfig[1]
    /\ discount_rate = TrainConfig[2]
    /\ exploration_decay = TrainConfig[3]
    /\ exploration_rate = Frac(1)
    /\ env_steps = 0
    /\ observation = <<>>
    /\ state_action_pairs = <<>>
    /\ episode = 0
    /\ error = "None"
    /\ call = NoCall
    /\ before = <<>>
    /\ ncalls = 0
    /\ ls = <<>> /\ target = 0 /\ start = 0 /\ end = 0 /\ ret = None

\* observation_space = discretize_observation_space(bounds, [...])
Build ==
    /\ pc = "start"
    /\ observation_space' = discretize_observation_space(bounds, steps)
    /\ pc' = "built"
    /\ UNCHANGED <<findVars, tableVars, _states_idxs, _actions_idxs, learning_rate,
                   discount_rate, exploration_decay, callVars, scriptVars, loopVars>>

\* table = QTable(observation_space, actions)
Construct ==
    /\ pc = "built"
    /\ _table' = Zeros(observation_space)
    /\ _states_idxs' = StatesIdxs(observation_space)
    /\ _actions_idxs' = Enumerate(actions)
    /\ exploration_rate' = Frac(1)
    /\ pc' = "reset"
    /\ UNCHANGED <<findVars, observation_space, learning_rate, discount_rate,
                   exploration_decay, callVars, scriptVars, loopVars>>

\* observation = env.reset(); state_action_pairs = []
Reset ==
    /\ pc = "reset"
    /\ env_steps < MaxEnvSteps
    /\ observation' \in Observations
    /\ state_action_pairs' = <<>>
    /\ pc' = "collect"
    /\ UNCHANGED <<findVars, tableVars, configVars, callVars, scriptVars, episode, error>>

\* one pass of the `while True` loop
Collect ==
    /\ pc = "collect"
    /\ env_steps < MaxEnvSteps
    /\ \E r \in Randoms, choice \in Elements(actions), next \in Observations, done \in BOOLEAN :
        LET state == discretize_state(observation, observation_space)
            action == decide_action(_table, state.v, r, choice)
        IN  IF state.tag # "value"
            THEN /\ error' = "IndexError" /\ pc' = "crashed"
                 /\ UNCHANGED <<observation, state_action_pairs, env_steps>>
            ELSE IF action.tag # "value"
            THEN /\ error' = "KeyError" /\ pc' = "crashed"
                 /\ UNCHANGED <<observation, state_action_pairs, env_steps>>
            ELSE /\ state_action_pairs' = Append(state_action_pairs, <<state.v, action.v>>)
                 /\ observation' = next
                 /\ env_steps' = env_steps + 1
                 /\ pc' = IF done THEN "learn" ELSE "collect"
                 /\ error' = error
    /\ UNCHANGED <<findVars, tableVars, configVars, callVars, bounds, steps, episode>>

\* the passes t_step, t_step + 1, ... of the `for t_step, sa_pair` loop, up to
\* the first process_step that raises
RECURSIVE learn(_, _, _, _)
learn(tbl, pairs, obs, t_step) ==
    IF t_step > Len(pairs) - 1 THEN [error |-> "None", table |-> tbl]
    ELSE LET next_state == IF t_step < Len(pairs) - 1
                           THEN Value(At(pairs, t_step + 1)[1])
                           ELSE discretize_state(obs, observation_space)
             r == process_step(tbl, At(pairs, t_step)[1], At(pairs, t_step)[2],
                               next_state.v, Len(pairs) - t_step)
         IN  IF next_state.tag # "value" THEN [error |-> "IndexError", table |-> tbl]
             ELSE IF r.raised THEN [error |-> "KeyError", table |-> r.table]
             ELSE learn(r.table, pairs, obs, t_step + 1)

\* the rest of the episode: the `for` loop, the decay of the exploration rate
\* (whether `episode > 3000 and t_steps_taken > prev_score` holds is left
\* open: decay), and the next episode
Learn ==
    /\ pc = "learn"
    /\ \E decay \in BOOLEAN :
        LET r == learn(_table, state_action_pairs, observation, 0)
        IN  IF r.error # "None"
            THEN /\ error' = r.error /\ pc' = "crashed"
                 /\ _table' = r.table
                 /\ UNCHANGED <<exploration_rate, episode>>
            ELSE /\ _table' = r.table
                 /\ exploration_rate' = IF decay THEN update_exploration_rate(exploration_rate)
                                        ELSE exploration_rate
                 /\ episode' = episode + 1
                 /\ pc' = "reset"
                 /\ error' = error
    /\ UNCHANGED <<findVars, configVars, callVars, scriptVars, observation,
                   state_action_pairs>>

NextTrain == Build \/ Construct \/ Reset \/ Collect \/ Learn

SpecTrain == InitTrain /\ [][NextTrain]_vars

----------------------------------------------------------------------------
(* Properties of find_nearest, under SpecFind *)

\* C1: on a non-empty strictly increasing domain find_nearest returns an
\* element of the domain that no other element is nearer to the target than;
\* at or below the first element that is the first element, at or above the
\* last element the last one.
FindNearestMinimises ==
    pc = "done" =>
        /\ ret.tag = "value"
        /\ ret.v \in Elements(ls)
        /\ \A d \in Elements(ls) : Abs(target - ret.v) <= Abs(target - d)
        /\ (target <= ls[1] => ret.v = ls[1])
        /\ (target >= Last(ls) => ret.v = Last(ls))

\* the search narrowed the interval and then returned for a target that lies
\* strictly between two elements
FindNearestMinimisesWitness ==
    /\ pc = "done"
    /\ ret.tag = "value"
    /\ \E i \in 1..Len(ls) - 1 :
         /\ ls[i] < target /\ target < ls[i + 1]
         /\ target - ls[i] # ls[i + 1] - target
    /\ start > 0

\* C2: a target exactly half way between two adjacent elements is mapped to
\* the smaller of the two.
FindNearestTieSmaller ==
    pc = "done" =>
        \A i \in 1..Len(ls) - 1 :
            (target - ls[i] = ls[i + 1] - target) => ret = Value(ls[i])

\* C10: every test of the loop condition passes, and every run of the body
\* either returns an element or leaves a strictly smaller interval, so the
\* call never falls out of the loop (returning None).
FindLoopProgress ==
    /\ ret.tag # "None" \/ pc # "done"
    /\ pc = "loop" =>
        /\ start < end
        /\ LET r == loop_body(ls, target, start, end)
           IN  \/ r.returned /\ r.ret.tag = "value"
               \/ /\ ~r.returned
                  /\ 0 <= r.start /\ r.start < r.end /\ r.end <= Len(ls)
                  /\ r.end - r.start < end - start

\* the loop is about to run again after narrowing both ends
FindLoopProgressWitness ==
    pc = "loop" /\ start > 0 /\ end < Len(ls)

----------------------------------------------------------------------------
(* Properties of QTable, under SpecTable *)

\* the position of a valid key on the state axes, read off observation_space
KeyIndex(k) ==
    [i \in 1..Len(k) |->
        CHOOSE j \in 0..Len(observation_space[i]) - 1 : At(observation_space[i], j) = k[i]]

ActionIndexes == 0..Len(actions) - 1

\* the largest of a row's action values
MaxValue(row) ==
    CHOOSE v \in { row[a] : a \in ActionIndexes } : \A a \in ActionIndexes : RLe(row[a], v)

ProcessStepReturned == call.op = "process_step" /\ ~call.raised

\* C3: after process_step(s, a, s', r) on valid keys the cell (s, a) holds
\* (1 - learning_rate) * old + learning_rate * (r + discount_rate * max),
\* old and max being the cell and the largest value of s' before the call.
BellmanUpdate ==
    ProcessStepReturned =>
        LET old == before.table[KeyIndex(call.state)][call.action]
            max == MaxValue(before.table[KeyIndex(call.new_state)])
        IN  _table[KeyIndex(call.state)][call.action] =
                RAdd(RMul(RSub(Frac(1), learning_rate), old),
                     RMul(learning_rate,
                          RAdd(Frac(call.reward), RMul(discount_rate, max))))

\* an update of a cell that already held a value, with next_state = state and
\* the updated action the maximising one
BellmanUpdateWitness ==
    /\ ProcessStepReturned
    /\ call.new_state = call.state
    /\ before.table[KeyIndex(call.state)][call.action] # Frac(0)
    /\ before.table[KeyIndex(call.state)][call.action]
         = MaxValue(before.table[KeyIndex(call.state)])
    /\ \E a \in ActionIndexes :
         before.table[KeyIndex(call.state)][a] # before.table[KeyIndex(call.state)][call.action]

\* C4: process_step leaves every cell other than (state, action) and
\* exploration_rate as they were.
UpdateLocality ==
    ProcessStepReturned =>
        /\ DOMAIN _table = DOMAIN before.table
        /\ \A ix \in DOMAIN _table : \A a \in ActionIndexes :
               (ix # KeyIndex(call.state) \/ a # call.action)
                   => _table[ix][a] = before.table[ix][a]
        /\ exploration_rate = before.exploration_rate

\* a cell changed while the row of a different next_state held a value
UpdateLocalityWitness ==
    /\ ProcessStepReturned
    /\ call.new_state # call.state
    /\ \E a \in ActionIndexes : before.table[KeyIndex(call.new_state)][a] # Frac(0)
    /\ _table # before.table

\* C5: exploration_rate starts at 1, stays in [0, 1] and no call raises it.
ExplorationRateMonotone ==
    /\ RLe(Frac(0), exploration_rate)
    /\ RLe(exploration_rate, Frac(1))
    /\ RLe(exploration_rate, before.exploration_rate)
    /\ ncalls = 0 => exploration_rate = Frac(1)

\* a second decay lowered the rate again
ExplorationRateMonotoneWitness ==
    /\ call.op = "update_exploration_rate"
    /\ RLt(exploration_rate, before.exploration_rate)
    /\ RLt(before.exploration_rate, Frac(1))

\* C6: _get_max_action returns the largest action value of the state and the
\* action of smallest index that has it.
GreedyAction ==
    (call.op = "_get_max_action" /\ ~call.raised) =>
        LET row == _table[KeyIndex(call.state)]
        IN  \E j \in ActionIndexes :
                /\ call.result = Value(<<At(actions, j), row[j]>>)
                /\ \A a \in ActionIndexes : RLe(row[a], row[j])
                /\ \A a \in ActionIndexes : a < j => RLt(row[a], row[j])

\* the maximum is not at the first action
GreedyActionWitness ==
    /\ call.op = "_get_max_action" /\ ~call.raised
    /\ call.result.v[1] # At(actions, 0)

ProcessStepInvalid ==
    /\ call.op = "process_step"
    /\ \/ call.state \notin ValidKeys
       \/ call.new_state \notin ValidKeys
       \/ call.action \notin Elements(actions)

\* C7: process_step with a state or next_state holding a value absent from
\* its factor's domain, or with an action outside the action set, raises and
\* leaves the table and exploration_rate as they were.
InvalidStepRaises ==
    ProcessStepInvalid =>
        /\ call.raised
        /\ _table = before.table
        /\ exploration_rate = before.exploration_rate

\* only next_state is invalid, and the table already holds a value
InvalidStepRaisesWitness ==
    /\ ProcessStepInvalid
    /\ call.state \in ValidKeys
    /\ call.action \in Elements(actions)
    /\ call.raised
    /\ _table # Zeros(TableSpace)

----------------------------------------------------------------------------
(* Properties of the script, under SpecTrain *)

DomainsBuilt == pc # "start"

NonEmptyDomains ==
    DomainsBuilt /\ \A i \in 1..Len(observation_space) : Len(observation_space[i]) > 0

\* C8: discretize_observation_space (and the QTable built on its result) does
\* not return with an empty domain: a factor whose (min, max, step) yields no
\* value raises an error instead.
EmptyDomainRaises ==
    DomainsBuilt => \A i \in 1..Len(observation_space) : Len(observation_space[i]) > 0

\* C9: over non-empty domains every key discretize_state produces holds, at
\* each position, an element of that factor's domain, and no call of
\* decide_action or process_step in the run fails on a lookup.
KeysRepresentable ==
    NonEmptyDomains =>
        /\ error = "None"
        /\ \A p \in 1..Len(state_action_pairs) : \A i \in 1..Len(observation_space) :
               state_action_pairs[p][1][i] \in Elements(observation_space[i])

\* an episode was learnt from whose last observation lay off the grid, over a
\* domain of several values, and the exploration rate has decayed
KeysRepresentableWitness ==
    /\ NonEmptyDomains
    /\ pc = "reset" /\ episode > 0
    /\ Len(state_action_pairs) > 1
    /\ \E i \in 1..Len(observation_space) :
         /\ Len(observation_space[i]) > 1
         /\ observation[i] \notin Elements(observation_space[i])
    /\ RLt(exploration_rate, Frac(1))
    /\ _table # Zeros(observation_space)

====
